---- MODULE Spec2Model ----
(***************************************************************************)
(* Plant species identification (app.py): a scikit-learn decision tree is  *)
(* fitted on a 16-sample corpus when the script runs (line 183) and        *)
(* classify_plant (lines 185-193) predicts a species and renders the tree. *)
(*                                                                         *)
(* Numbers.  Python floats are doubles; DecisionTreeClassifier converts X  *)
(* to float32 in fit and in predict and keeps thresholds as doubles.  The  *)
(* model keeps both as fixed-point integers, v * 2^-FracBits(f) for        *)
(* feature f, and computes the float32 conversion (round to nearest, ties  *)
(* to even, 24 significant bits) on them.  Exact rational comparison       *)
(* stands for the double arithmetic of the Gini criterion: on this corpus  *)
(* every quotient that decides a tie (16/4, 32/8, 48/12) is exact.         *)
(***************************************************************************)
EXTENDS Integers, Sequences, FiniteSets, TLC

VARIABLES
    pc,            \* position of the script run
    rngDraws,      \* the feature orders RandomState(42) yields, as far as drawn
    rngPos,        \* number of draws made since the generator was seeded
    stack,         \* the builder's stack of nodes still to expand
    nodes,         \* tree_.nodes of the classifier being fitted
    splitLog,      \* one record per node_split call of the current fit
    model,         \* the module global `model` (<<>> while unbound)
    prevModel,     \* the tree the previous script run published (<<>> if none)
    height,        \* slider value
    width,         \* slider value
    stem_quality,  \* selectbox value
    identify,      \* button value
    ret,           \* outcome of the last classify_plant call
    species_key,   \* key last looked up in PLANT_DB ("" if none)
    session        \* "streamlit": run by streamlit; "bare": imported or run by python

vars == <<pc, rngDraws, rngPos, stack, nodes, splitLog, model, prevModel,
          height, width, stem_quality, identify, ret, species_key, session>>

----------------------------------------------------------------------------
(* Constants of the program *)

PLANT_DB == {"rose", "sunflower", "lavender", "bamboo"}

STEM_MAP == [s \in {"thin", "medium", "thick"} |->
                CASE s = "thin" -> 0 [] s = "medium" -> 1 [] s = "thick" -> 2]

max_depth_one == 2 - 1

max_depth == 4

min_samples_split == 2

min_samples_leaf == 1

TREE_LEAF == -1

TREE_UNDEFINED == -2

n_features == 3

feature_names == <<"height_cm", "leaf_width_cm", "stem_quality_code">>

\* classes_ = np.unique(y): the labels in sorted order
classes_ == <<"bamboo", "lavender", "rose", "sunflower">>

----------------------------------------------------------------------------
(* Numbers *)

\* A Python float of the model: tenths ("dec", v/10), a binary fraction of
\* feature f ("bin", v * 2^-FracBits(f)) or a power of two ("pow2", 2^v).
Dec(v) == [k |-> "dec", v |-> v]

Bin(v) == [k |-> "bin", v |-> v]

Huge(v) == [k |-> "pow2", v |-> v]

RECURSIVE Pow2(_)
Pow2(k) == IF k <= 0 THEN 1 ELSE 2 * Pow2(k - 1)

FracBits(f) == IF f = 1 THEN 20 ELSE 26

RoundHalfEven(num, den) ==
    LET q == num \div den
        r == num % den
    IN  IF 2 * r < den THEN q
        ELSE IF 2 * r > den THEN q + 1
        ELSE IF q % 2 = 0 THEN q ELSE q + 1

\* e with 2^e <= num/den < 2^(e+1), searched upwards from e
RECURSIVE Exponent(_, _, _)
Exponent(num, den, e) ==
    IF e >= 0
    THEN IF num < den * Pow2(e + 1) THEN e ELSE Exponent(num, den, e + 1)
    ELSE IF num * Pow2(-(e + 1)) < den THEN e ELSE Exponent(num, den, e + 1)

\* float32 has exponents up to 127: 2^128 and beyond convert to infinity
F32Overflows(d) == d.k = "pow2" /\ d.v >= 128

\* np.float32(d) of a finite result, as a fixed-point value of feature f
F32(d, f) ==
    IF d.v = 0 /\ d.k # "pow2" THEN 0
    ELSE IF d.k = "dec"
    THEN LET e == Exponent(d.v, 10, 23 - FracBits(f))
         IN  RoundHalfEven(d.v * Pow2(23 - e), 10) * Pow2(e - 23 + FracBits(f))
    ELSE IF d.k = "bin"
    THEN LET u == Pow2(Exponent(d.v, 1, 0) - 23)
         IN  RoundHalfEven(d.v, u) * u
    ELSE Pow2(d.v + FracBits(f))

\* d <= t and d = t on the exact values, t a fixed-point value of feature f
DoubleLeq(d, t, f) ==
    LET one == Pow2(FracBits(f))
    IN  IF d.k = "dec" THEN d.v <= 10 * (t \div one) + (10 * (t % one)) \div one
        ELSE IF d.k = "bin" THEN d.v <= t
        ELSE d.v + FracBits(f) < 31 /\ Pow2(d.v + FracBits(f)) <= t

DoubleEq(d, t, f) ==
    IF d.k = "dec" THEN d.v % 5 = 0 /\ (d.v \div 5) * Pow2(FracBits(f) - 1) = t
    ELSE IF d.k = "bin" THEN d.v = t
    ELSE d.v + FracBits(f) < 31 /\ Pow2(d.v + FracBits(f)) = t

\* "{:.2f}".format(t): the value in hundredths
Format2f(t, f) ==
    LET one == Pow2(FracBits(f))
    IN  100 * (t \div one) + RoundHalfEven(25 * (t % one), one \div 4)

----------------------------------------------------------------------------
(* The training corpus of train_model *)

Sample(h, w, s, label) ==
    [x |-> <<Dec(10 * h), Dec(w), Dec(10 * STEM_MAP[s])>>, stem |-> s, y |-> label]

lavender_samples ==
    << Sample(30, 10, "thin", "lavender"), Sample(40, 15, "thin", "lavender"),
       Sample(60, 20, "thin", "lavender"), Sample(50, 23, "thin", "lavender") >>

rose_samples ==
    << Sample(60, 40, "thin", "rose"),     Sample(80, 50, "medium", "rose"),
       Sample(120, 60, "medium", "rose"),  Sample(90, 35, "thin", "rose") >>

sunflower_samples ==
    << Sample(180, 100, "medium", "sunflower"), Sample(200, 120, "thick", "sunflower"),
       Sample(220, 80, "medium", "sunflower"),  Sample(250, 110, "thick", "sunflower") >>

bamboo_samples ==
    << Sample(220, 30, "thick", "bamboo"), Sample(300, 40, "thick", "bamboo"),
       Sample(260, 25, "thick", "bamboo"), Sample(350, 50, "thick", "bamboo") >>

Corpus == lavender_samples \o rose_samples \o sunflower_samples \o bamboo_samples

\* X as fit sees it: converted to float32
X32 == [i \in DOMAIN Corpus |-> [f \in 1..n_features |-> F32(Corpus[i].x[f], f)]]

y == [i \in DOMAIN Corpus |-> Corpus[i].y]

----------------------------------------------------------------------------
(* DecisionTreeClassifier.fit: Gini criterion, best splitter, depth-first   *)
(* builder                                                                  *)

RECURSIVE SumOver(_, _)
SumOver(F, D) ==
    IF D = {} THEN 0
    ELSE LET d == CHOOSE e \in D : TRUE IN F[d] + SumOver(F, D \ {d})

\* the class counts of a set of samples (tree_.value of a node)
Counts(S) == [c \in DOMAIN classes_ |-> Cardinality({i \in S : y[i] = classes_[c]})]

\* sq_count: the sum of the squared class counts
SqCount(S) ==
    LET cnt == Counts(S)
    IN  SumOver([c \in DOMAIN classes_ |-> cnt[c] * cnt[c]], DOMAIN classes_)

\* Gini.node_impurity: 1 - sum_k (count_k / n)^2, as a fraction
node_impurity(S) ==
    LET n == Cardinality(S)
    IN  [num |-> n * n - SqCount(S), den |-> n * n]

\* impurity <= EPSILON: with at most 16 samples the least positive impurity
\* is 30/256, so the test is impurity = 0
ImpurityIsZero(S) == node_impurity(S).num = 0

\* Gini.proxy_impurity_improvement: sq_left / n_left + sq_right / n_right
proxy_impurity_improvement(L, R) ==
    [num |-> SqCount(L) * Cardinality(R) + SqCount(R) * Cardinality(L),
     den |-> Cardinality(L) * Cardinality(R)]

\* the distinct values of a feature among the samples, ascending
RECURSIVE SortedSeq(_)
SortedSeq(V) ==
    IF V = {} THEN <<>>
    ELSE LET m == CHOOSE a \in V : \A b \in V : a <= b
         IN  <<m>> \o SortedSeq(V \ {m})

FeatureValues(S, f) == SortedSeq({X32[i][f] : i \in S})

\* threshold = Xf[p-1] / 2.0 + Xf[p] / 2.0, in double; Xf[p-1] if that is Xf[p]
Midpoint(a, b) ==
    LET t == a \div 2 + b \div 2
    IN  IF t = b THEN a ELSE t

NoSplit ==
    [found |-> FALSE, feature |-> TREE_UNDEFINED, threshold |-> TREE_UNDEFINED,
     left |-> {}, right |-> {}, num |-> 0, den |-> 1]

BetterOrEqual(cur, best) ==
    ~best.found \/ cur.num * best.den >= best.num * cur.den

\* current_proxy_improvement > best_proxy_improvement (best starts at -INFINITY)
Better(cur, best) ==
    ~best.found \/ cur.num * best.den > best.num * cur.den

\* the split between the k-th and the next value of feature f (0-based index)
SplitAt(S, f, vals, k) ==
    LET L == {i \in S : X32[i][f + 1] <= vals[k]}
        R == S \ L
        p == proxy_impurity_improvement(L, R)
    IN  [found |-> TRUE, feature |-> f, threshold |-> Midpoint(vals[k], vals[k + 1]),
         left |-> L, right |-> R, num |-> p.num, den |-> p.den]

\* the split positions of every feature with their proxy improvements, as
\* criterion.update and proxy_impurity_improvement give them at each position
SplitCandidates(S) ==
    [f \in 0..(n_features - 1) |->
        LET vals == FeatureValues(S, f + 1)
        IN  [k \in 1..(Len(vals) - 1) |-> SplitAt(S, f, vals, k)]]

\* the scan of one feature's split positions, lowest first
RECURSIVE ScanFeature(_, _, _)
ScanFeature(cands, k, best) ==
    IF k > Len(cands) THEN best
    ELSE ScanFeature(cands, k + 1, IF Better(cands[k], best) THEN cands[k] ELSE best)

\* the features in the order the generator draws them
RECURSIVE ScanFeatures(_, _, _, _)
ScanFeatures(cands, order, j, best) ==
    IF j > Len(order) THEN best
    ELSE ScanFeatures(cands, order, j + 1, ScanFeature(cands[order[j]], 1, best))

\* BestSplitter.node_split on the node's split candidates
node_split(cands, order) == ScanFeatures(cands, order, 1, NoSplit)

IsLeafSizeOnly(depth, S) ==
    \/ Cardinality(S) < min_samples_split
    \/ Cardinality(S) < 2 * min_samples_leaf

\* the builder's test before it asks the splitter
IsLeaf(depth, S) ==
    \/ depth >= max_depth
    \/ Cardinality(S) < min_samples_split
    \/ Cardinality(S) < 2 * min_samples_leaf
    \/ ImpurityIsZero(S)

\* the orders in which the Fisher-Yates draw can visit the features
FeatureOrders ==
    {o \in [1..n_features -> 0..(n_features - 1)] : \A a, b \in 1..n_features : o[a] = o[b] => a = b}

\* RandomState(42): what the generator yields at a position is a function
\* of the seed; the model fixes it at the first draw there
NextDraws == IF rngPos < Len(rngDraws) THEN {rngDraws[rngPos + 1]} ELSE FeatureOrders

Unseeded(pos) == pos

\* check_random_state(random_state) in fit: a generator seeded afresh
Seeded(pos) == 0

\* Tree._add_node: the new node, and the parent's child pointer set to it
add_node(tree, parent, is_left, is_leaf, split, S) ==
    LET id == Len(tree)
        node == [feature |-> IF is_leaf THEN TREE_UNDEFINED ELSE split.feature,
                 threshold |-> IF is_leaf THEN TREE_UNDEFINED ELSE split.threshold,
                 left_child |-> IF is_leaf THEN TREE_LEAF ELSE TREE_UNDEFINED,
                 right_child |-> IF is_leaf THEN TREE_LEAF ELSE TREE_UNDEFINED,
                 value |-> Counts(S)]
        linked == IF parent = TREE_UNDEFINED THEN tree
                  ELSE IF is_left
                  THEN [tree EXCEPT ![parent + 1].left_child = id]
                  ELSE [tree EXCEPT ![parent + 1].right_child = id]
    IN  Append(linked, node)

----------------------------------------------------------------------------
(* predict, export_text and classify_plant *)

IsInternal(node) == node.left_child # TREE_LEAF

\* Tree.apply: from node id down to a leaf, left iff X[feature] <= threshold
RECURSIVE apply(_, _, _)
apply(tree, x, id) ==
    LET node == tree[id + 1]
    IN  IF ~IsInternal(node) THEN id
        ELSE IF x[node.feature + 1] <= node.threshold
        THEN apply(tree, x, node.left_child)
        ELSE apply(tree, x, node.right_child)

\* the nodes visited on the way: (feature_index, threshold, direction)
RECURSIVE decision_path(_, _, _)
decision_path(tree, x, id) ==
    LET node == tree[id + 1]
    IN  IF ~IsInternal(node) THEN <<>>
        ELSE IF x[node.feature + 1] <= node.threshold
        THEN <<[feature_index |-> node.feature, threshold |-> node.threshold,
                direction |-> "left", node |-> id]>>
             \o decision_path(tree, x, node.left_child)
        ELSE <<[feature_index |-> node.feature, threshold |-> node.threshold,
                direction |-> "right", node |-> id]>>
             \o decision_path(tree, x, node.right_child)

\* np.argmax: the first index holding the largest count
argmax(value) ==
    CHOOSE c \in DOMAIN value :
        /\ \A d \in DOMAIN value : value[d] <= value[c]
        /\ \A d \in DOMAIN value : d < c => value[d] < value[c]

\* classes_.take(argmax(value of the leaf reached))
predict(tree, x) == classes_[argmax(tree[apply(tree, x, 0) + 1].value)]

RuleLine(depth, kind, name, value) ==
    [depth |-> depth, kind |-> kind, name |-> name, value |-> value]

RECURSIVE export_text_left_only(_, _, _, _)
export_text_left_only(tree, names, id, depth) ==
    LET node == tree[id + 1]
    IN  IF IsInternal(node)
        THEN <<RuleLine(depth, "<=", names[node.feature + 1],
                        Format2f(node.threshold, node.feature + 1))>>
             \o export_text_left_only(tree, names, node.left_child, depth + 1)
        ELSE <<RuleLine(depth, "class", classes_[argmax(node.value)], 0)>>

\* export_text: every node in pre-order, "name <= t", the left subtree,
\* "name >  t", the right subtree; "class: c" at a leaf; t with 2 decimals
RECURSIVE export_text(_, _, _, _)
export_text(tree, names, id, depth) ==
    LET node == tree[id + 1]
    IN  IF IsInternal(node)
        THEN <<RuleLine(depth, "<=", names[node.feature + 1],
                        Format2f(node.threshold, node.feature + 1))>>
             \o export_text(tree, names, node.left_child, depth + 1)
             \o <<RuleLine(depth, ">", names[node.feature + 1],
                           Format2f(node.threshold, node.feature + 1))>>
             \o export_text(tree, names, node.right_child, depth + 1)
        ELSE <<RuleLine(depth, "class", classes_[argmax(node.value)], 0)>>

Unbound == [k |-> "none", v |-> 0]

NoCall ==
    [outcome |-> "none", height_cm |-> Unbound, width_cm |-> Unbound,
     stem_quality |-> "", sample |-> <<>>, pred |-> "", rules |-> <<>>]

Call(outcome, h, w, s, sample, pred, rules) ==
    [outcome |-> outcome, height_cm |-> h, width_cm |-> w, stem_quality |-> s,
     sample |-> sample, pred |-> pred, rules |-> rules]

\* the rest of classify_plant once stem_code is known (lines 187-193);
\* predict converts the sample to float32 and raises ValueError if a value
\* became infinite
classify_code(h, w, s, stem_code, tree) ==
    LET sample == <<h, w, Dec(10 * stem_code)>>
    IN  IF \E f \in 1..n_features : F32Overflows(sample[f])
        THEN Call("ValueError", h, w, s, sample, "", <<>>)
        ELSE Call("ok", h, w, s, sample,
                  predict(tree, [f \in 1..n_features |-> F32(sample[f], f)]),
                  export_text(tree, feature_names, 0, 0))

classify_plant_get(h, w, s, tree) ==
    classify_code(h, w, s, IF s \in DOMAIN STEM_MAP THEN STEM_MAP[s] ELSE 0, tree)

\* classify_plant: STEM_MAP[stem_quality] raises KeyError for an unknown token
classify_plant(h, w, s, tree) ==
    IF s \notin DOMAIN STEM_MAP
    THEN Call("KeyError", h, w, s, <<>>, "", <<>>)
    ELSE classify_code(h, w, s, STEM_MAP[s], tree)

model_reset_by_call(tree) == <<>>

\* the global `model` after a classify_plant call: the function has no
\* assignment to it and predict and export_text only read the tree
model_after_call(tree) == tree

Init ==
    /\ pc = "load"
    /\ rngDraws = <<>>
    /\ rngPos = 0
    /\ stack = <<>>
    /\ nodes = <<>>
    /\ splitLog = <<>>
    /\ model = <<>>
    /\ prevModel = <<>>
    /\ height = Unbound
    /\ width = Unbound
    /\ stem_quality = ""
    /\ identify = FALSE
    /\ ret = NoCall
    /\ species_key = ""
    /\ session \in {"streamlit", "bare"}

\* line 183, entering train_model and fit: fit rejects an empty X and a
\* max_depth below 1 with a ValueError, which ends the script run
TrainStart ==
    /\ pc = "load"
    /\ IF Len(Corpus) = 0 \/ max_depth < 1
       THEN /\ pc' = "crashed"
            /\ UNCHANGED <<stack, rngPos>>
       ELSE /\ pc' = "fit"
            /\ rngPos' = Seeded(rngPos)
            /\ stack' = << [samples |-> DOMAIN Corpus, depth |-> 0,
                            parent |-> TREE_UNDEFINED, is_left |-> FALSE] >>
    /\ nodes' = <<>>
    /\ splitLog' = <<>>
    /\ UNCHANGED <<rngDraws, model, prevModel, height, width, stem_quality,
                   identify, ret, species_key, session>>

\* one iteration of DepthFirstTreeBuilder.build's loop
FitStep ==
    /\ pc = "fit"
    /\ stack # <<>>
    /\ LET top == Head(stack)
           S == top.samples
       IN  IF IsLeaf(top.depth, S)
           THEN /\ nodes' = add_node(nodes, top.parent, top.is_left, TRUE, NoSplit, S)
                /\ stack' = Tail(stack)
                /\ UNCHANGED <<rngDraws, rngPos, splitLog>>
           ELSE LET cands == SplitCandidates(S) IN
                \E order \in NextDraws :
                  LET split == node_split(cands, order)
                      id == Len(nodes)
                  IN  /\ rngDraws' = IF rngPos < Len(rngDraws) THEN rngDraws
                                     ELSE Append(rngDraws, order)
                      /\ rngPos' = rngPos + 1
                      /\ splitLog' = Append(splitLog,
                            [node |-> id, samples |-> S, order |-> order,
                             found |-> split.found, feature |-> split.feature,
                             threshold |-> split.threshold])
                      /\ nodes' = add_node(nodes, top.parent, top.is_left,
                                           ~split.found, split, S)
                      /\ stack' =
                           IF split.found
                           THEN << [samples |-> split.left, depth |-> top.depth + 1,
                                    parent |-> id, is_left |-> TRUE],
                                   [samples |-> split.right, depth |-> top.depth + 1,
                                    parent |-> id, is_left |-> FALSE] >> \o Tail(stack)
                           ELSE Tail(stack)
    /\ UNCHANGED <<pc, model, prevModel, height, width, stem_quality, identify,
                   ret, species_key, session>>

BuilderGivesUp == TRUE

\* while not stack.is_empty()
BuilderDone == stack = <<>>

\* fit returns, train_model returns clf, line 183 binds model
TrainReturn ==
    /\ pc = "fit"
    /\ BuilderDone
    /\ model' = nodes
    /\ nodes' = <<>>
    /\ pc' = "widgets"
    /\ UNCHANGED <<rngDraws, rngPos, stack, splitLog, prevModel, height, width,
                   stem_quality, identify, ret, species_key, session>>

\* a selection of the values the sliders offer (10.0..400.0 by 1.0,
\* 0.2..20.0 by 0.1)
SliderHeights == {Dec(400), Dec(1500), Dec(3000)}

SliderWidths == {Dec(2), Dec(24), Dec(29), Dec(40)}

\* lines 203-227: the widgets return the user's choices; without a
\* streamlit session they return their defaults
Widgets ==
    /\ pc = "widgets"
    /\ IF session = "streamlit"
       THEN /\ height' \in SliderHeights
            /\ width' \in SliderWidths
            /\ stem_quality' \in DOMAIN STEM_MAP
            /\ identify' \in BOOLEAN
       ELSE /\ height' = Dec(800)
            /\ width' = Dec(40)
            /\ stem_quality' = "medium"
            /\ identify' = FALSE
    /\ pc' = "branch"
    /\ UNCHANGED <<rngDraws, rngPos, stack, nodes, splitLog, model, prevModel,
                   ret, species_key, session>>

\* lines 232-252: an exception of classify_plant or of the PLANT_DB lookup
\* ends the script run
IdentifyBranch ==
    /\ pc = "branch"
    /\ identify
    /\ LET r == classify_plant(height, width, stem_quality, model)
       IN  /\ ret' = r
           /\ model' = model_after_call(model)
           /\ species_key' = IF r.outcome = "ok" THEN r.pred ELSE species_key
           /\ pc' = IF r.outcome = "ok" /\ r.pred \in PLANT_DB THEN "done" ELSE "crashed"
    /\ UNCHANGED <<rngDraws, rngPos, stack, nodes, splitLog, prevModel, height,
                   width, stem_quality, identify, session>>

\* line 254
InfoBranch ==
    /\ pc = "branch"
    /\ ~identify
    /\ pc' = "done"
    /\ UNCHANGED <<rngDraws, rngPos, stack, nodes, splitLog, model, prevModel,
                   height, width, stem_quality, identify, ret, species_key, session>>

\* a user interaction makes streamlit run the script again from the top
Rerun ==
    /\ session = "streamlit"
    /\ pc \in {"done", "crashed"}
    /\ pc' = "load"
    /\ prevModel' = model
    /\ model' = <<>>
    /\ height' = Unbound
    /\ width' = Unbound
    /\ stem_quality' = ""
    /\ identify' = FALSE
    /\ ret' = NoCall
    /\ species_key' = ""
    /\ UNCHANGED <<rngDraws, rngPos, stack, nodes, splitLog, session>>

\* the arguments a caller of the imported module passes: ordinary values,
\* values exactly on a threshold of the tree, a value beyond float32, and
\* stem tokens in and outside STEM_MAP
ThresholdsOf(tree, f) ==
    {Bin(tree[i].threshold) : i \in {j \in DOMAIN tree : IsInternal(tree[j]) /\ tree[j].feature + 1 = f}}

CallHeights == {Dec(400), Dec(1000), Huge(128)} \cup ThresholdsOf(model, 1)

CallWidths == {Dec(24), Dec(50), Huge(128)} \cup ThresholdsOf(model, 2)

CallStems == DOMAIN STEM_MAP \cup {"woody"}

\* classify_plant called on the imported module
CallClassify ==
    /\ session = "bare"
    /\ pc = "done"
    /\ \E h \in CallHeights, w \in CallWidths, s \in CallStems :
          ret' = classify_plant(h, w, s, model)
    /\ model' = model_after_call(model)
    /\ pc' = "called"
    /\ UNCHANGED <<rngDraws, rngPos, stack, nodes, splitLog, prevModel, height,
                   width, stem_quality, identify, species_key, session>>

\* the caller is done with the returned pair (or has handled the exception)
CallReturn ==
    /\ pc = "called"
    /\ pc' = "done"
    /\ ret' = NoCall
    /\ UNCHANGED <<rngDraws, rngPos, stack, nodes, splitLog, model, prevModel,
                   height, width, stem_quality, identify, species_key, session>>

Next ==
    \/ TrainStart
    \/ FitStep
    \/ TrainReturn
    \/ Widgets
    \/ IdentifyBranch
    \/ InfoBranch
    \/ Rerun
    \/ CallClassify
    \/ CallReturn

Spec == Init /\ [][Next]_vars

\* the script as streamlit runs it: every user interaction is a new run
NextStreamlit ==
    \/ TrainStart
    \/ FitStep
    \/ TrainReturn
    \/ Widgets
    \/ IdentifyBranch
    \/ InfoBranch
    \/ Rerun

InitStreamlit ==
    /\ Init
    /\ session = "streamlit"

SpecStreamlit == InitStreamlit /\ [][NextStreamlit]_vars

----------------------------------------------------------------------------
(* Properties *)

InternalNodes(tree) == {i \in 0..(Len(tree) - 1) : IsInternal(tree[i + 1])}

LeafNodes(tree) == {i \in 0..(Len(tree) - 1) : ~IsInternal(tree[i + 1])}

\* the number of edges from the root to node id, by the child pointers
RECURSIVE NodeDepth(_, _)
NodeDepth(tree, id) ==
    IF \E p \in 0..(Len(tree) - 1) : id \in {tree[p + 1].left_child, tree[p + 1].right_child}
    THEN 1 + NodeDepth(tree, CHOOSE p \in 0..(Len(tree) - 1) :
                                id \in {tree[p + 1].left_child, tree[p + 1].right_child})
    ELSE 0

\* every internal node has both children and they are nodes of the tree
CompleteTree(tree) ==
    /\ tree # <<>>
    /\ \A i \in InternalNodes(tree) :
          /\ tree[i + 1].left_child \in 1..(Len(tree) - 1)
          /\ tree[i + 1].right_child \in 1..(Len(tree) - 1)

Label(h, w, s) == classify_plant(Dec(10 * h), Dec(w), s, model).pred

\* the float32 vector predict traverses with for the last call
Query32 == [f \in 1..n_features |-> F32(ret.sample[f], f)]

\* C1: the tree train_model returns classifies every one of the 16 corpus
\* samples as its own label; (300, 4.0, thick) is bamboo, (40, 1.5, thin)
\* lavender, (90, 3.5, thin) rose and (200, 12.0, thick) sunflower.  (Stated
\* of the state in which line 183 has bound model; C9 keeps the tree.)
C1_ZeroTrainingError ==
    pc = "widgets" =>
       /\ \A i \in DOMAIN Corpus :
             LET r == classify_plant(Corpus[i].x[1], Corpus[i].x[2], Corpus[i].stem, model)
             IN  r.outcome = "ok" /\ r.pred = Corpus[i].y
       /\ Label(300, 40, "thick") = "bamboo"
       /\ Label(40, 15, "thin") = "lavender"
       /\ Label(90, 35, "thin") = "rose"
       /\ Label(200, 120, "thick") = "sunflower"

C1_Witness ==
    /\ ret.outcome = "ok"
    /\ ret.height_cm = Dec(3000) /\ ret.width_cm = Dec(40) /\ ret.stem_quality = "thick"
    /\ ret.pred = "bamboo"

\* C2: a call with a stem token outside STEM_MAP ends in the KeyError
\* outcome, which is not the outcome of a classification, with no sample
\* vector, no label and no rules, and changes nothing but the call's outcome.
C2_InvalidCategoryRejected ==
    [][ (ret' # ret /\ ret'.outcome # "none" /\ ret'.stem_quality \notin DOMAIN STEM_MAP)
        => /\ ret'.outcome = "KeyError"
           /\ ret'.outcome # "ok"
           /\ ret'.sample = <<>> /\ ret'.pred = "" /\ ret'.rules = <<>>
           /\ UNCHANGED <<rngDraws, rngPos, stack, nodes, splitLog, model, prevModel,
                          height, width, stem_quality, identify, species_key, session>> ]_vars

C2_Witness ==
    /\ ret.outcome = "KeyError"
    /\ ret.height_cm = Dec(1000) /\ ret.width_cm = Dec(50) /\ ret.stem_quality = "woody"

\* C3: every call with finite measurements and a stem token of STEM_MAP
\* ends in a classification whose label is a key of PLANT_DB.
C3_TotalIntoKnownSpecies ==
    (ret.outcome # "none" /\ ret.stem_quality \in DOMAIN STEM_MAP)
        => (ret.outcome = "ok" /\ ret.pred \in PLANT_DB)

\* The split lines of a rule text, and a decision path written as rule lines
SplitLines(rules) == SelectSeq(rules, LAMBDA l : l.kind # "class")

PathAsRules(path) ==
    [k \in DOMAIN path |->
        RuleLine(k - 1, IF path[k].direction = "left" THEN "<=" ELSE ">",
                 feature_names[path[k].feature_index + 1],
                 Format2f(path[k].threshold, path[k].feature_index + 1))]

C5_BoundaryRoutesLeft ==
    ret.outcome = "ok" =>
        LET path == decision_path(model, Query32, 0)
        IN  \A k \in DOMAIN path :
              LET f == path[k].feature_index + 1
              IN  /\ (path[k].direction = "left") <=> DoubleLeq(ret.sample[f], path[k].threshold, f)
                  /\ DoubleEq(ret.sample[f], path[k].threshold, f) => path[k].direction = "left"

\* C6: at every step of the induction and in the published tree no node
\* lies more than max_depth = 4 edges below the root.
C6_DepthBounded ==
    /\ \A i \in 0..(Len(nodes) - 1) : NodeDepth(nodes, i) <= max_depth
    /\ \A i \in 0..(Len(model) - 1) : NodeDepth(model, i) <= max_depth
    /\ \A k \in DOMAIN stack : stack[k].depth <= max_depth

C6_Witness ==
    /\ model # <<>>
    /\ \E i \in LeafNodes(model) : NodeDepth(model, i) = 3

SameSplitOrLabel(a, b) ==
    /\ a.feature = b.feature
    /\ a.threshold = b.threshold
    /\ classes_[argmax(a.value)] = classes_[argmax(b.value)]

\* C7: the tree a script run trains is the tree the run before it trained,
\* node for node (already while it is built), and the two render to the same
\* rule text.
C7_Deterministic ==
    /\ (pc = "fit" /\ prevModel # <<>>) =>
          /\ Len(nodes) <= Len(prevModel)
          /\ \A i \in DOMAIN nodes : SameSplitOrLabel(nodes[i], prevModel[i])
    /\ (pc = "widgets" /\ prevModel # <<>>) =>
          /\ Len(model) = Len(prevModel)
          /\ \A i \in DOMAIN model :
                /\ SameSplitOrLabel(model[i], prevModel[i])
                /\ model[i].left_child = prevModel[i].left_child
                /\ model[i].right_child = prevModel[i].right_child
          /\ export_text(model, feature_names, 0, 0) = export_text(prevModel, feature_names, 0, 0)

C7_Witness ==
    /\ pc = "widgets" /\ prevModel # <<>>
    /\ Cardinality(InternalNodes(model)) = 3
    /\ model[1].feature = 1

\* Weighted Gini impurity of splitting S on feature f (0-based) at t:
\* (|L|/|S|) (1 - sum (c/|L|)^2) + (|R|/|S|) (1 - sum (c/|R|)^2), as a fraction
WeightedGini(S, f, t) ==
    LET L == {i \in S : X32[i][f + 1] <= t}
        R == S \ L
        nL == Cardinality(L)
        nR == Cardinality(R)
    IN  [feature |-> f, threshold |-> t, nL |-> nL, nR |-> nR,
         num |-> (nL * nL - SqCount(L)) * nR + (nR * nR - SqCount(R)) * nL,
         den |-> nL * nR * Cardinality(S)]

GiniLeq(a, b) == a.num * b.den <= b.num * a.den

Position(order, f) == CHOOSE j \in DOMAIN order : order[j] = f

\* the midpoints between neighbouring distinct values of each feature
MidpointCandidates(S) ==
    UNION {
      LET V == {X32[i][f + 1] : i \in S}
      IN  { WeightedGini(S, f, Midpoint(a, CHOOSE b \in V : a < b /\ \A c \in V : a < c => b <= c)) :
              a \in {v \in V : \E b \in V : v < b} }
      : f \in 0..(n_features - 1) }

\* the values of each feature that leave samples on both sides
ValueCandidates(S) ==
    { c \in UNION { { WeightedGini(S, f, X32[i][f + 1]) : i \in S } : f \in 0..(n_features - 1) } :
        c.nL > 0 /\ c.nR > 0 }

C9_TreeImmutable ==
    [][ /\ (model # <<>> /\ pc' # "load") => model' = model
        /\ (ret' # ret /\ ret'.outcome # "none") =>
              /\ model' = model
              /\ ret' = classify_plant(ret'.height_cm, ret'.width_cm, ret'.stem_quality, model) ]_vars

C9_Witness ==
    /\ pc = "called"
    /\ ret.outcome = "ValueError"
    /\ CompleteTree(model)

\* C10: a classify_plant call is made only after the builder has emptied its
\* stack and the complete tree is bound to model; while the run is still
\* training, and after a run that ended without a tree, no call was made.
C10_TrainedBeforeInference ==
    /\ (pc \in {"widgets", "branch", "done", "called"} \/ ret.outcome # "none")
          => (CompleteTree(model) /\ stack = <<>>)
    /\ pc \in {"load", "fit"} => (ret = NoCall /\ model = <<>>)
    /\ (pc = "crashed" /\ model = <<>>) => ret = NoCall

C10_Witness ==
    /\ session = "streamlit"
    /\ pc = "done"
    /\ ret.outcome = "ok"
    /\ prevModel # <<>>

====
